---- MODULE Spec2Model ----
(***************************************************************************)
(* Model of waybar-bluetooth-headphone-battery (src/src/main.rs).          *)
(*                                                                         *)
(* Strings are sequences of one-character strings, so that split, trim and *)
(* the name lookup are computed character by character.  A DeviceKind is   *)
(* represented by its discriminant 0..29.  Option values are sequences of  *)
(* length at most one: None is << >>, Some(x) is <<x>>.  Percentages (f64  *)
(* in the source) are modelled by integers; NaN is not modelled.           *)
(***************************************************************************)
EXTENDS Integers, Sequences, FiniteSets, TLC

VARIABLES
    kindsArg,        \* the --kinds command-line string (main.rs:18-19)
    listen,          \* --listen (main.rs:30-31)
    low_percentage,  \* --low-percentage (main.rs:26-27)
    srcTypes,        \* the Type values the devices of the device source have
    refresh_ticks,   \* --refresh, in ticks of the clock (main.rs:34-35)
    maxCalls,        \* a run is followed up to this many output_devices calls
    history,         \* whether the run records the history variables
                     \* cancelInCycle, arrivedIn, lateWake and prevMatched
    pc,              \* position of main / output_devices
    kinds,           \* opt.kinds once parsed: a set of DeviceKind
    exit,            \* "none" while running, then "ok", "err" or "killed"
    connected,       \* Connection::system() and UPowerProxy::new succeeded
    notifQueue,      \* items buffered in signal_stream
    subscribed,      \* signal_stream exists (main.rs:157)
    ctrl_c,          \* "none", "created" (never polled), "registered", "ready"
    refresh,         \* the sleep future: "none", "armed", "elapsed"
    timeLeft,        \* ticks until the deadline of the sleep created last
    caller,          \* call site of the running output_devices
    ndev,            \* number of devices returned by enumerate_devices
    idx,             \* 1-based position of the for loop (main.rs:180)
    devices_seen,    \* main.rs:178
    cur,             \* values fetched so far for the current device
    written,         \* lines println! has written since the current call of
                     \* output_devices began, oldest first (the lines of
                     \* earlier calls are with the reader and are not kept)
    cycles,          \* history: number of output_devices calls started
    cycleResult,     \* history: "none", "running", "ok", "err" of the last call
    log,             \* history: what the device source reported in this call
    cancelInWait,    \* history: SIGINT was delivered while select! was suspended
    won,             \* history: branch taken by the last select!
    sinceCycle,      \* history: ticks since the last call returned Ok(()),
                     \* counted up to MaxRefresh
    cancelInCycle,   \* history: SIGINT was caught while output_devices ran
    arrivedIn,       \* history: for every buffered signal, whether it
                     \* arrived while output_devices ran
    lateWake,        \* history: the signal the last signal branch took had
                     \* arrived while output_devices ran
    prevMatched      \* history: the call before this one counted a device

vars == <<kindsArg, listen, low_percentage, srcTypes, pc, kinds, exit, connected,
          notifQueue, subscribed, ctrl_c, refresh, caller, ndev, idx,
          devices_seen, cur, written, cycles, cycleResult, log,
          cancelInWait, won, refresh_ticks, maxCalls, history, timeLeft,
          sinceCycle,
          cancelInCycle, arrivedIn, lateWake, prevMatched>>

confVars == <<kindsArg, listen, low_percentage, srcTypes, refresh_ticks,
              maxCalls, history>>
loopVars == <<notifQueue, subscribed, ctrl_c, refresh>>
timeVars == <<timeLeft, sinceCycle>>
ghostVars == <<cancelInCycle, arrivedIn, lateWake, prevMatched>>
cycleVars == <<caller, ndev, idx, devices_seen, cur>>
histVars == <<cycles, cycleResult, log, cancelInWait, won>>

(***************************************************************************)
(* Bounds of the model.                                                    *)
(***************************************************************************)
MaxTerms == 2     \* comma-separated terms in a generated --kinds string
MaxDevices == 2   \* devices returned by one enumerate_devices call
MaxCycles == 2    \* output_devices calls in one run
MaxNotif == 1     \* notifications buffered in signal_stream
MaxRefresh == 2   \* ticks of the longest --refresh interval

(***************************************************************************)
(* Option and Result values.                                               *)
(***************************************************************************)
None == << >>
Some(x) == <<x>>
Ok(v) == [ok |-> TRUE, val |-> v]
Err(e) == [ok |-> FALSE, err |-> e]

(***************************************************************************)
(* enum DeviceKind, main.rs:66-112.  strum's kebab-case names, indexed by  *)
(* discriminant + 1.                                                       *)
(***************************************************************************)
Unknown == 0
Mouse == 5
Headset == 17
Headphones == 19
Last == 29

DeviceKind == Unknown .. Last

VARIANTS ==
    << 
       <<"u", "n", "k", "n", "o", "w", "n">>,  \* Unknown = 0
       <<"l", "i", "n", "e", "-", "p", "o", "w", "e", "r">>,  \* LinePower = 1
       <<"b", "a", "t", "t", "e", "r", "y">>,  \* Battery = 2
       <<"u", "p", "s">>,  \* Ups = 3
       <<"m", "o", "n", "i", "t", "o", "r">>,  \* Monitor = 4
       <<"m", "o", "u", "s", "e">>,  \* Mouse = 5
       <<"k", "e", "y", "b", "o", "a", "r", "d">>,  \* Keyboard = 6
       <<"p", "d", "a">>,  \* Pda = 7
       <<"p", "h", "o", "n", "e">>,  \* Phone = 8
       <<"m", "e", "d", "i", "a", "-", "p", "l", "a", "y", "e", "r">>,  \* MediaPlayer = 9
       <<"t", "a", "b", "l", "e", "t">>,  \* Tablet = 10
       <<"c", "o", "m", "p", "u", "t", "e", "r">>,  \* Computer = 11
       <<"g", "a", "m", "i", "n", "g", "-", "i", "n", "p", "u", "t">>,  \* GamingInput = 12
       <<"p", "e", "n">>,  \* Pen = 13
       <<"t", "o", "u", "c", "h", "p", "a", "d">>,  \* Touchpad = 14
       <<"m", "o", "d", "e", "m">>,  \* Modem = 15
       <<"n", "e", "t", "w", "o", "r", "k">>,  \* Network = 16
       <<"h", "e", "a", "d", "s", "e", "t">>,  \* Headset = 17
       <<"s", "p", "e", "a", "k", "e", "r", "s">>,  \* Speakers = 18
       <<"h", "e", "a", "d", "p", "h", "o", "n", "e", "s">>,  \* Headphones = 19
       <<"v", "i", "d", "e", "o">>,  \* Video = 20
       <<"o", "t", "h", "e", "r", "-", "a", "u", "d", "i", "o">>,  \* OtherAudio = 21
       <<"r", "e", "m", "o", "t", "e", "-", "c", "o", "n", "t", "r", "o", "l">>,  \* RemoteControl = 22
       <<"p", "r", "i", "n", "t", "e", "r">>,  \* Printer = 23
       <<"s", "c", "a", "n", "n", "e", "r">>,  \* Scanner = 24
       <<"c", "a", "m", "e", "r", "a">>,  \* Camera = 25
       <<"w", "e", "a", "r", "a", "b", "l", "e">>,  \* Wearable = 26
       <<"t", "o", "y">>,  \* Toy = 27
       <<"g", "e", "n", "e", "r", "i", "c">>,  \* Generic = 28
       <<"l", "a", "s", "t">>   \* Last = 29
    >>

\* #[derive(EnumString)]: exact, case-sensitive match against the kebab-case
\* names; no ascii_case_insensitive attribute is set.
DeviceKind_from_str(s) ==
    IF \E k \in DeviceKind : VARIANTS[k + 1] = s
    THEN Ok(CHOOSE k \in DeviceKind : VARIANTS[k + 1] = s)
    ELSE Err("VariantNotFound")

\* A from_u32 that does not know the last variant.
from_u32_short(code) == IF code \in Unknown .. Last - 1 THEN Some(code) ELSE None

\* #[derive(FromPrimitive)] and unwrap_or_default (main.rs:182): Unknown is
\* the #[default] variant.
from_u32(code) == IF code \in DeviceKind THEN Some(code) ELSE None

unwrap_or_default(o) == IF o = None THEN Unknown ELSE o[1]

(***************************************************************************)
(* str::split(',') and str::trim as used by DeviceKindSet::from_str.       *)
(***************************************************************************)
IsWhitespace(c) == c \in {" ", "\t"}

RECURSIVE trim_start(_)
trim_start(s) ==
    IF s # << >> /\ IsWhitespace(Head(s)) THEN trim_start(Tail(s)) ELSE s

RECURSIVE trim_end(_)
trim_end(s) ==
    IF s # << >> /\ IsWhitespace(s[Len(s)])
    THEN trim_end(SubSeq(s, 1, Len(s) - 1))
    ELSE s

\* A trim that leaves trailing whitespace in place.
trim_start_only(s) == trim_start(s)

trim(s) == trim_end(trim_start(s))

\* A split that yields no term for the empty string.
RECURSIVE split_skip_empty(_)
split_skip_empty(s) ==
    IF s = << >>
    THEN << >>
    ELSE IF \E i \in 1 .. Len(s) : s[i] = ","
         THEN LET i == CHOOSE j \in 1 .. Len(s) :
                           /\ s[j] = ","
                           /\ \A k \in 1 .. j - 1 : s[k] # ","
              IN  <<SubSeq(s, 1, i - 1)>>
                      \o split_skip_empty(SubSeq(s, i + 1, Len(s)))
         ELSE <<s>>

\* split always yields at least one term: "" splits into the single term "".
RECURSIVE split(_)
split(s) ==
    IF \E i \in 1 .. Len(s) : s[i] = ","
    THEN LET i == CHOOSE j \in 1 .. Len(s) :
                      /\ s[j] = ","
                      /\ \A k \in 1 .. j - 1 : s[k] # ","
         IN  <<SubSeq(s, 1, i - 1)>> \o split(SubSeq(s, i + 1, Len(s)))
    ELSE <<s>>

(***************************************************************************)
(* impl FromStr for DeviceKindSet, main.rs:134-145, and contains,          *)
(* main.rs:118-120.                                                        *)
(***************************************************************************)
\* A loop that skips the terms that name no kind instead of failing.
RECURSIVE from_str_loop_skip(_, _)
from_str_loop_skip(terms, set) ==
    IF terms = << >>
    THEN Ok(set)
    ELSE LET r == DeviceKind_from_str(trim(Head(terms)))
         IN  from_str_loop_skip(Tail(terms),
                                IF r.ok THEN set \cup {r.val} ELSE set)

RECURSIVE from_str_loop(_, _)
from_str_loop(terms, set) ==
    IF terms = << >>
    THEN Ok(set)
    ELSE LET r == DeviceKind_from_str(trim(Head(terms)))
         IN  IF r.ok
             THEN from_str_loop(Tail(terms), set \cup {r.val})
             ELSE Err(r.err)

DeviceKindSet_from_str(s) == from_str_loop(split(s), {})

DeviceKindSet_contains(set, kind) == kind \in set

(***************************************************************************)
(* Opt::output, main.rs:38-51, and the serialisation of WaybarOutput,      *)
(* main.rs:53-62: a field whose value is None is skipped, so a serialised  *)
(* JSON object is a function from the field names present to their        *)
(* values.  A line of output is a sequence: the blank line of println!()   *)
(* is empty, a record line holds one JSON object.                          *)
(***************************************************************************)
low_class == "low"

format_percent(percentage) == <<percentage, "%">>

\* An output that leaves the tooltip out when the model is empty.
Opt_output_omit_empty(percentage, model) ==
    [text |-> format_percent(percentage),
     tooltip |-> IF model = "" THEN None ELSE Some(model),
     class |-> IF percentage <= low_percentage THEN Some(low_class) ELSE None,
     percentage |-> Some(percentage)]

\* An output whose class test is strict.
Opt_output_lt(percentage, model) ==
    [text |-> format_percent(percentage),
     tooltip |-> Some(model),
     class |-> IF percentage < low_percentage THEN Some(low_class) ELSE None,
     percentage |-> Some(percentage)]

Opt_output(percentage, model) ==
    [text |-> format_percent(percentage),
     tooltip |-> Some(model),
     class |-> IF percentage <= low_percentage THEN Some(low_class) ELSE None,
     percentage |-> Some(percentage)]

to_string(output) ==
    LET present == {"text"} \cup {f \in {"tooltip", "class", "percentage"} :
                                      output[f] # None}
    IN  <<[f \in present |-> IF f = "text" THEN output.text ELSE output[f][1]]>>

BlankLine == << >>

\* A println that puts the line before the earlier ones.
println_front(out, line) == <<line>> \o out

\* println!: one more line at the end of standard output.

println(out, line) == Append(out, line)

(***************************************************************************)
(* What the command line and the device source can supply.                 *)
(***************************************************************************)
Name(kind) == VARIANTS[kind + 1]

DefaultKinds == Name(Headset) \o <<",", " ">> \o Name(Headphones)

BogusKind == <<"b", "o", "g", "u", "s", "-", "k", "i", "n", "d">>

Tokens ==
    { Name(Headset), Name(Headphones), Name(Mouse),
      <<" ">> \o Name(Headset), Name(Headphones) \o <<" ", "\t">>,
      <<"H">> \o Tail(Name(Headset)),
      BogusKind, << >>, <<" ">> }

RECURSIVE join(_)
join(ts) ==
    IF Len(ts) = 1 THEN ts[1] ELSE ts[1] \o <<",">> \o join(Tail(ts))

ParseInputs ==
    { join(ts) : ts \in UNION { [1 .. n -> Tokens] : n \in 1 .. MaxTerms } }

MainInputs == { DefaultKinds, Name(Headset) \o <<",", " ">> \o BogusKind }

TypeCodes == { Mouse, Headset, 999 }
AllTypeCodes == (Unknown .. Last + 1) \cup {999}
KindInputs == { DefaultKinds, Name(Unknown), Name(Last) \o <<",">> \o Name(Unknown) }
Models == { "", "ModelX" }
Percentages == { 15, 20, 85 }
LowPercentages == { 20, 85 }

NoDevice == [code |-> 0, kind |-> Unknown, model |-> ""]

(***************************************************************************)
(* Initial states.                                                         *)
(***************************************************************************)
InitRest ==
    /\ pc = "parse"
    /\ kinds = {}
    /\ exit = "none"
    /\ connected = FALSE
    /\ notifQueue = 0
    /\ subscribed = FALSE
    /\ ctrl_c = "none"
    /\ refresh = "none"
    /\ caller = "none"
    /\ ndev = 0
    /\ idx = 0
    /\ devices_seen = 0
    /\ cur = NoDevice
    /\ written = << >>
    /\ cycles = 0
    /\ cycleResult = "none"
    /\ log = << >>
    /\ cancelInWait = FALSE
    /\ won = "none"
    /\ timeLeft = 0
    /\ sinceCycle = 0
    /\ cancelInCycle = FALSE
    /\ arrivedIn = << >>
    /\ lateWake = FALSE
    /\ prevMatched = FALSE

\* Runs with --refresh 0s: the sleep is due as soon as it is created, so
\* the three branches of select! race in every order without a clock.
Init ==
    /\ kindsArg \in MainInputs
    /\ listen \in BOOLEAN
    /\ low_percentage \in LowPercentages
    /\ srcTypes = TypeCodes
    /\ refresh_ticks = 0
    /\ maxCalls = MaxCycles
    /\ history = FALSE
    /\ InitRest

\* Runs with --listen and --refresh 0s against a device source of mice,
\* followed one call further, with their history.
InitLoop ==
    /\ kindsArg = DefaultKinds
    /\ listen = TRUE
    /\ low_percentage = 20
    /\ srcTypes = {Mouse}
    /\ refresh_ticks = 0
    /\ maxCalls = MaxCycles + 1
    /\ history = TRUE
    /\ InitRest

\* Runs with --listen and --refresh 0s against a device source of
\* headsets and mice, with their history.
InitHistory ==
    /\ kindsArg = DefaultKinds
    /\ listen = TRUE
    /\ low_percentage = 20
    /\ srcTypes = {Mouse, Headset}
    /\ refresh_ticks = 0
    /\ maxCalls = MaxCycles
    /\ history = TRUE
    /\ InitRest

\* Runs with --listen and a refresh interval of at least one tick, against
\* a device source of mice, followed one call further.
InitTimer ==
    /\ kindsArg = DefaultKinds
    /\ listen = TRUE
    /\ low_percentage = 20
    /\ srcTypes = {Mouse}
    /\ refresh_ticks \in 1 .. MaxRefresh
    /\ maxCalls = MaxCycles + 1
    /\ history = FALSE
    /\ InitRest

\* One-shot runs against a device source whose devices all have one Type
\* value, in or out of the range of DeviceKind.
InitKinds ==
    /\ kindsArg \in KindInputs
    /\ listen = FALSE
    /\ low_percentage \in LowPercentages
    /\ srcTypes \in { {code} : code \in AllTypeCodes }
    /\ refresh_ticks = 0
    /\ maxCalls = MaxCycles
    /\ history = FALSE
    /\ InitRest

InitParse ==
    /\ kindsArg \in ParseInputs
    /\ listen = FALSE
    /\ low_percentage \in LowPercentages
    /\ srcTypes = TypeCodes
    /\ refresh_ticks = 0
    /\ maxCalls = MaxCycles
    /\ history = FALSE
    /\ InitRest

(***************************************************************************)
(* main, main.rs:147-171.                                                  *)
(***************************************************************************)
\* The process ends: main returns Ok(()) ("ok", exit code 0) or an error
\* ("err", non-zero exit code).
Terminate(code) ==
    /\ pc' = "done"
    /\ exit' = code

\* A call that goes on counting from the previous call's devices_seen.
CallOutputDevices_keep(site) ==
    /\ pc' = "enumerate"
    /\ caller' = site
    /\ devices_seen' = devices_seen
    /\ ndev' = 0
    /\ idx' = 0
    /\ cur' = NoDevice
    /\ cycles' = cycles + 1
    /\ written' = << >>
    /\ cycleResult' = "running"
    /\ log' = << >>
    /\ prevMatched' = (history /\ devices_seen > 0)

\* A call of output_devices from `site`: devices_seen starts at 0 (line 178).
CallOutputDevices(site) ==
    /\ pc' = "enumerate"
    /\ caller' = site
    /\ devices_seen' = 0
    /\ ndev' = 0
    /\ idx' = 0
    /\ cur' = NoDevice
    /\ cycles' = cycles + 1
    /\ written' = << >>
    /\ cycleResult' = "running"
    /\ log' = << >>
    /\ prevMatched' = (history /\ devices_seen > 0)

\* A main that goes back to the loop after a failed call made from it.
MainResume_retry(ok) ==
    IF ok \/ caller # "init"
    THEN /\ pc' = IF caller = "init" THEN "listen" ELSE "arm"
         /\ exit' = exit
    ELSE Terminate("err")

\* The `?` applied to the result of output_devices at lines 154, 163, 164,
\* and where main continues when the result is Ok.
MainResume(ok) ==
    IF ok
    THEN /\ pc' = IF caller = "init" THEN "listen" ELSE "arm"
         /\ exit' = exit
    ELSE Terminate("err")

\* Opt::try_parse()?, line 149: clap hands the --kinds value to
\* DeviceKindSet::from_str.
ParseArgs ==
    /\ pc = "parse"
    /\ LET r == DeviceKindSet_from_str(kindsArg)
       IN  IF r.ok
           THEN /\ kinds' = r.val
                /\ pc' = "connect"
                /\ exit' = exit
           ELSE /\ kinds' = kinds
                /\ Terminate("err")
    /\ UNCHANGED <<confVars, connected, loopVars, cycleVars, written, histVars>>
    /\ UNCHANGED <<timeVars, ghostVars>>

\* Lines 151-154: connect to the system bus, build the UPower proxy, and
\* make the first output_devices call.
Connect ==
    /\ pc = "connect"
    /\ \/ /\ Terminate("err")
          /\ UNCHANGED <<connected, cycleVars, written, cycles,
                         cycleResult, log, prevMatched>>
       \/ /\ connected' = TRUE
          /\ exit' = exit
          /\ CallOutputDevices("init")
    /\ UNCHANGED <<confVars, kinds, loopVars, cancelInWait, won>>
    /\ UNCHANGED <<timeVars, cancelInCycle, arrivedIn, lateWake>>

\* A main that enters the loop whatever --listen says.
ListenCheck_always ==
    /\ pc = "listen"
    /\ \/ /\ Terminate("err")
          /\ UNCHANGED subscribed
       \/ /\ subscribed' = TRUE
          /\ pc' = "arm"
          /\ exit' = exit
    /\ ctrl_c' = "created"
    /\ UNCHANGED <<confVars, kinds, connected, notifQueue, refresh, cycleVars,
                   written, histVars>>
    /\ UNCHANGED <<timeVars, ghostVars>>

\* Lines 155-157 and 170: without --listen main returns Ok(()); with it the
\* ctrl_c future is created (not yet polled) and the signal stream opened.
ListenCheck ==
    /\ pc = "listen"
    /\ IF listen
       THEN /\ ctrl_c' = "created"
            /\ \/ /\ Terminate("err")
                  /\ UNCHANGED subscribed
               \/ /\ subscribed' = TRUE
                  /\ pc' = "arm"
                  /\ exit' = exit
       ELSE /\ Terminate("ok")
            /\ UNCHANGED <<ctrl_c, subscribed>>
    /\ UNCHANGED <<confVars, kinds, connected, notifQueue, refresh, cycleVars,
                   written, histVars>>
    /\ UNCHANGED <<timeVars, ghostVars>>

\* A loop that opens a new signal stream at the head of every iteration.
Arm_flush ==
    /\ pc = "arm"
    /\ refresh' = "armed"
    /\ timeLeft' = refresh_ticks
    /\ notifQueue' = 0
    /\ arrivedIn' = << >>
    /\ pc' = "select"
    /\ UNCHANGED <<confVars, kinds, exit, connected, subscribed, ctrl_c,
                   cycleVars, written, histVars, sinceCycle, cancelInCycle,
                   lateWake, prevMatched>>

\* A loop that keeps the deadline of the previous sleep while it has not
\* passed.
Arm_stale ==
    /\ pc = "arm"
    /\ refresh' = "armed"
    /\ timeLeft' = IF timeLeft > 0 THEN timeLeft ELSE refresh_ticks
    /\ pc' = "select"
    /\ UNCHANGED <<confVars, kinds, exit, connected, notifQueue, subscribed,
                   ctrl_c, cycleVars, written, histVars, sinceCycle,
                   ghostVars>>

\* Line 160: a new sleep future at the head of every loop iteration; its
\* deadline is the whole of --refresh away.
Arm ==
    /\ pc = "arm"
    /\ refresh' = "armed"
    /\ timeLeft' = refresh_ticks
    /\ pc' = "select"
    /\ UNCHANGED <<confVars, kinds, exit, connected, notifQueue, subscribed,
                   ctrl_c, cycleVars, written, histVars, sinceCycle,
                   ghostVars>>

\* A select! whose refresh branch never completes.
BranchReady_notimer(b) ==
    CASE b = 0 -> notifQueue > 0
      [] b = 1 -> FALSE
      [] b = 2 -> ctrl_c = "ready"

\* select!, lines 162-166.  There is no `biased;`, so every poll starts at a
\* random branch and takes the first branch that is ready, in rotation.
\* Branch 0 is signal_stream.next(), 1 is refresh, 2 is ctrl_c.
BranchReady(b) ==
    CASE b = 0 -> notifQueue > 0
      [] b = 1 -> refresh = "elapsed"
      [] b = 2 -> ctrl_c = "ready"

PollOrder(start) == [i \in 1 .. 3 |-> (start + i - 1) % 3]

\* Position in the poll order of the branch that completes the select!, or
\* 4 when every branch is pending.
WinnerPos(start) ==
    LET ord == PollOrder(start)
    IN  IF \E i \in 1 .. 3 : BranchReady(ord[i])
        THEN CHOOSE i \in 1 .. 3 :
                 /\ BranchReady(ord[i])
                 /\ \A j \in 1 .. i - 1 : ~BranchReady(ord[j])
        ELSE 4

\* A select! that forgets a caught SIGINT when another branch is taken.
CtrlCAfterPoll_drop(start) ==
    LET ord == PollOrder(start)
        pos == WinnerPos(start)
        polled == \E i \in 1 .. 3 : ord[i] = 2 /\ i <= pos
    IN  IF polled /\ ctrl_c = "created"
        THEN "registered"
        ELSE IF ctrl_c = "ready" /\ pos # 4 /\ ord[pos] # 2
             THEN "registered"
             ELSE ctrl_c

\* The ctrl_c future installs the SIGINT handler when it is first polled.
CtrlCAfterPoll(start) ==
    LET ord == PollOrder(start)
        polled == \E i \in 1 .. 3 : ord[i] = 2 /\ i <= WinnerPos(start)
    IN  IF polled /\ ctrl_c = "created" THEN "registered" ELSE ctrl_c

\* Handlers of which the timer one also takes a buffered notification.
SelectBranch_double(b) ==
    CASE b = 0 -> /\ cycles < maxCalls
                  /\ notifQueue' = notifQueue - 1
                  /\ arrivedIn' = Tail(arrivedIn)
                  /\ lateWake' = (history /\ Head(arrivedIn))
                  /\ exit' = exit
                  /\ CallOutputDevices("signal")
      [] b = 1 -> /\ cycles < maxCalls
                  /\ notifQueue' = IF notifQueue > 0 THEN notifQueue - 1 ELSE 0
                  /\ arrivedIn' = IF notifQueue > 0 THEN Tail(arrivedIn)
                                                     ELSE arrivedIn
                  /\ lateWake' = lateWake
                  /\ exit' = exit
                  /\ CallOutputDevices("time")
      [] b = 2 -> /\ Terminate("ok")
                  /\ UNCHANGED <<notifQueue, cycleVars, written, cycles,
                                 cycleResult, log, arrivedIn, lateWake,
                                 prevMatched>>

\* Handlers of which the ctrl_c one calls output_devices instead of break.
SelectBranch_nobreak(b) ==
    /\ cycles < maxCalls
    /\ notifQueue' = IF b = 0 THEN notifQueue - 1 ELSE notifQueue
    /\ arrivedIn' = IF b = 0 THEN Tail(arrivedIn) ELSE arrivedIn
    /\ lateWake' = IF b = 0 THEN history /\ Head(arrivedIn) ELSE lateWake
    /\ exit' = exit
    /\ CallOutputDevices(CASE b = 0 -> "signal" [] b = 1 -> "time"
                           [] OTHER -> "ctrl_c")

\* The handler of the branch that completed.  The signal branch takes the
\* oldest buffered signal.  maxCalls caps the number of calls of a run.
SelectBranch(b) ==
    CASE b = 0 -> /\ cycles < maxCalls
                  /\ notifQueue' = notifQueue - 1
                  /\ arrivedIn' = Tail(arrivedIn)
                  /\ lateWake' = (history /\ Head(arrivedIn))
                  /\ exit' = exit
                  /\ CallOutputDevices("signal")
      [] b = 1 -> /\ cycles < maxCalls
                  /\ notifQueue' = notifQueue
                  /\ UNCHANGED <<arrivedIn, lateWake>>
                  /\ exit' = exit
                  /\ CallOutputDevices("time")
      [] b = 2 -> /\ Terminate("ok")
                  /\ UNCHANGED <<notifQueue, cycleVars, written, cycles,
                                 cycleResult, log, arrivedIn, lateWake,
                                 prevMatched>>

Select ==
    /\ pc \in {"select", "wait"}
    /\ pc = "wait" => \E b \in 0 .. 2 : BranchReady(b)
    /\ \E start \in 0 .. 2 :
         LET pos == WinnerPos(start)
         IN  /\ ctrl_c' = CtrlCAfterPoll(start)
             /\ IF pos = 4
                THEN /\ pc' = "wait"
                     /\ UNCHANGED <<exit, notifQueue, refresh, cycleVars,
                                    written, cycles, cycleResult, log, won,
                                    arrivedIn, lateWake, prevMatched>>
                ELSE /\ SelectBranch(PollOrder(start)[pos])
                     /\ refresh' = "none"
                     /\ won' = CASE PollOrder(start)[pos] = 0 -> "signal"
                                 [] PollOrder(start)[pos] = 1 -> "time"
                                 [] OTHER -> "ctrl_c"
    /\ UNCHANGED <<confVars, kinds, connected, subscribed, cancelInWait>>
    /\ UNCHANGED <<timeVars, cancelInCycle>>

(***************************************************************************)
(* The environment: UPower emits a signal, the refresh deadline passes,    *)
(* the user sends SIGINT.                                                  *)
(***************************************************************************)
\* A signal is buffered in signal_stream from its creation on, also while
\* output_devices runs.  (The end of the stream, which the signal branch
\* treats like a signal, is not modelled.)
Notify ==
    /\ pc # "done"
    /\ subscribed
    /\ notifQueue < MaxNotif
    /\ notifQueue' = notifQueue + 1
    /\ arrivedIn' = Append(arrivedIn, history /\ cycleResult = "running")
    /\ UNCHANGED <<confVars, pc, kinds, exit, connected, subscribed, ctrl_c,
                   refresh, cycleVars, written, histVars, timeVars,
                   cancelInCycle, lateWake, prevMatched>>

\* The deadline of the sleep has come.
TimerElapse ==
    /\ pc \in {"select", "wait"}
    /\ refresh = "armed"
    /\ timeLeft = 0
    /\ refresh' = "elapsed"
    /\ UNCHANGED <<confVars, pc, kinds, exit, connected, notifQueue,
                   subscribed, ctrl_c, cycleVars, written, histVars>>
    /\ UNCHANGED <<timeVars, ghostVars>>

\* Until the ctrl_c future has been polled SIGINT has its default action and
\* kills the process; afterwards it completes the future.
SigInt ==
    /\ pc # "done"
    /\ IF ctrl_c \in {"none", "created"}
       THEN /\ pc' = "done"
            /\ exit' = "killed"
            /\ UNCHANGED <<ctrl_c, cancelInWait, cancelInCycle>>
       ELSE /\ ctrl_c' = "ready"
            /\ cancelInWait' = (cancelInWait \/ pc = "wait")
            /\ cancelInCycle' =
                   (cancelInCycle \/ (history /\ cycleResult = "running"))
            /\ UNCHANGED <<pc, exit>>
    /\ UNCHANGED <<confVars, kinds, connected, notifQueue, subscribed,
                   refresh, cycleVars, written, cycles, cycleResult, log, won>>
    /\ UNCHANGED <<timeVars, arrivedIn, lateWake, prevMatched>>

(***************************************************************************)
(* output_devices, main.rs:173-196, one action per await.                  *)
(***************************************************************************)
\* A failure path that still prints the blank line.
CycleFail_blank ==
    /\ cycleResult' = "err"
    /\ MainResume(FALSE)
    /\ written' = println(written, BlankLine)
    /\ UNCHANGED <<confVars, kinds, connected, loopVars, caller, ndev, idx,
                   cur, cycles, log, cancelInWait, won>>

\* A `?` inside output_devices returns the error to main; nothing is
\* printed on the way out.
CycleFail ==
    /\ cycleResult' = "err"
    /\ MainResume(FALSE)
    /\ UNCHANGED <<confVars, kinds, connected, loopVars, caller, ndev, idx,
                   cur, written, cycles, log, cancelInWait, won>>

\* Line 180: upower.enumerate_devices().await?
Enumerate ==
    /\ pc = "enumerate"
    /\ \/ CycleFail /\ UNCHANGED devices_seen
       \/ \E n \in 0 .. MaxDevices :
            /\ ndev' = n
            /\ idx' = 1
            /\ pc' = IF n = 0 THEN "finish" ELSE "proxy"
            /\ UNCHANGED <<confVars, kinds, exit, connected, loopVars, caller,
                           devices_seen, cur, written, histVars>>
    /\ UNCHANGED <<timeVars, ghostVars>>

\* Line 181: DeviceProxy::new(conn, device).await?
NewProxy ==
    /\ pc = "proxy"
    /\ \/ CycleFail /\ UNCHANGED devices_seen
       \/ /\ pc' = "type"
          /\ UNCHANGED <<confVars, kinds, exit, connected, loopVars,
                         cycleVars, written, histVars>>
    /\ UNCHANGED <<timeVars, ghostVars>>

\* Line 182: the Type property, mapped through from_u32.
GetType ==
    /\ pc = "type"
    /\ \/ CycleFail /\ UNCHANGED devices_seen
       \/ \E code \in srcTypes :
            /\ cur' = [cur EXCEPT !.code = code,
                                  !.kind = unwrap_or_default(from_u32(code))]
            /\ pc' = "model"
            /\ UNCHANGED <<confVars, kinds, exit, connected, loopVars, caller,
                           ndev, idx, devices_seen, written, histVars>>
    /\ UNCHANGED <<timeVars, ghostVars>>

\* A loop body that goes on to the next device when the model query fails.
GetModel_skip ==
    /\ pc = "model"
    /\ \/ /\ idx' = idx + 1
          /\ cur' = NoDevice
          /\ pc' = IF idx + 1 > ndev THEN "finish" ELSE "proxy"
          /\ UNCHANGED <<confVars, kinds, exit, connected, loopVars, caller,
                         ndev, devices_seen, written, histVars>>
       \/ \E m \in Models :
            /\ cur' = [cur EXCEPT !.model = m]
            /\ pc' = "emit"
            /\ UNCHANGED <<confVars, kinds, exit, connected, loopVars, caller,
                           ndev, idx, devices_seen, written, histVars>>
    /\ UNCHANGED <<timeVars, ghostVars>>

\* Line 183: proxy.model().await?
GetModel ==
    /\ pc = "model"
    /\ \/ CycleFail /\ UNCHANGED devices_seen
       \/ \E m \in Models :
            /\ cur' = [cur EXCEPT !.model = m]
            /\ pc' = "emit"
            /\ UNCHANGED <<confVars, kinds, exit, connected, loopVars, caller,
                           ndev, idx, devices_seen, written, histVars>>
    /\ UNCHANGED <<timeVars, ghostVars>>

\* The end of one iteration of the for loop.
NextDevice ==
    /\ idx' = idx + 1
    /\ cur' = NoDevice
    /\ pc' = IF idx + 1 > ndev THEN "finish" ELSE "proxy"

\* Line 184: the filter test.
Matches(kind) == DeviceKindSet_contains(kinds, kind)

\* Lines 184-188: count a matching device, query its percentage (which can
\* fail, after the count) and print its record.
Emit ==
    /\ pc = "emit"
    /\ IF Matches(cur.kind)
       THEN \/ /\ devices_seen' = devices_seen + 1
               /\ CycleFail
            \/ \E p \in Percentages :
                 /\ devices_seen' = devices_seen + 1
                 /\ written' = println(written, to_string(Opt_output(p, cur.model)))
                 /\ log' = Append(log, [code |-> cur.code, model |-> cur.model,
                                        percentage |-> Some(p)])
                 /\ NextDevice
                 /\ UNCHANGED <<confVars, kinds, exit, connected, loopVars,
                                caller, ndev, cycles, cycleResult,
                                cancelInWait, won>>
       ELSE /\ log' = Append(log, [code |-> cur.code, model |-> cur.model,
                                   percentage |-> None])
            /\ NextDevice
            /\ UNCHANGED <<confVars, kinds, exit, connected, loopVars, caller,
                           ndev, devices_seen, written, cycles, cycleResult, cancelInWait, won>>
    /\ UNCHANGED <<timeVars, ghostVars>>

\* An end of call that never prints the blank line.
BlankIfNone_never(out) == out

\* Lines 191-193.

BlankIfNone(out) ==
    IF devices_seen = 0 THEN println(out, BlankLine) ELSE out

\* Lines 191-195: the blank line when nothing matched, then Ok(()).
Finish ==
    /\ pc = "finish"
    /\ written' = BlankIfNone(written)
    /\ cycleResult' = "ok"
    /\ MainResume(TRUE)
    /\ UNCHANGED <<confVars, kinds, connected, loopVars, cycleVars, cycles,
                   log, cancelInWait, won>>
    /\ sinceCycle' = 0
    /\ UNCHANGED <<timeLeft, ghostVars>>

\* One tick of the clock.  The deadline of the sleep created last comes
\* nearer whatever main is doing; the idle time counts after a call that
\* returned Ok(()).
Tick ==
    /\ pc # "done"
    /\ timeLeft > 0 \/ (cycleResult = "ok" /\ sinceCycle < MaxRefresh)
    /\ timeLeft' = IF timeLeft > 0 THEN timeLeft - 1 ELSE 0
    /\ sinceCycle' = IF cycleResult = "ok" /\ sinceCycle < MaxRefresh
                     THEN sinceCycle + 1
                     ELSE sinceCycle
    /\ UNCHANGED <<confVars, pc, kinds, exit, connected, loopVars, cycleVars,
                   written, histVars, ghostVars>>

(***************************************************************************)
(* Specifications.                                                         *)
(***************************************************************************)
Next ==
    \/ ParseArgs
    \/ Connect
    \/ ListenCheck
    \/ Arm
    \/ Select
    \/ Notify
    \/ TimerElapse
    \/ SigInt
    \/ Enumerate
    \/ NewProxy
    \/ GetType
    \/ GetModel
    \/ Emit
    \/ Finish

Spec == Init /\ [][Next]_vars

\* Continuous runs with their history.
SpecLoop == InitLoop /\ [][Next]_vars

\* Continuous runs over matching and other devices, with their history.
SpecHistory == InitHistory /\ [][Next]_vars

\* Continuous runs with a clock.
NextTimer == Next \/ Tick

SpecTimer == InitTimer /\ [][NextTimer]_vars

\* Continuous runs in which main is scheduled whenever it can run and the
\* clock advances: the loop head, the select! and the timer are not
\* postponed for ever.  Nothing is assumed of UPower signals, of SIGINT, or
\* of the replies of the device source.
SpecLive ==
    /\ SpecTimer
    /\ WF_vars(Arm)
    /\ WF_vars(Select)
    /\ WF_vars(Tick)
    /\ WF_vars(TimerElapse)

\* One-shot runs over every Type value.
NextKinds ==
    \/ ParseArgs
    \/ Connect
    \/ ListenCheck
    \/ SigInt
    \/ Enumerate
    \/ NewProxy
    \/ GetType
    \/ GetModel
    \/ Emit
    \/ Finish

SpecKinds == InitKinds /\ [][NextKinds]_vars

\* DeviceKindSet::from_str on generated --kinds strings.
NextParse == ParseArgs

SpecParse == InitParse /\ [][NextParse]_vars

(***************************************************************************)
(* Helpers of the properties below.                                        *)
(***************************************************************************)
\* The kind of the device recorded in one entry of log.
LoggedKind(e) == IF e.code \in DeviceKind THEN e.code ELSE Unknown

\* The number of devices of this call whose kind is in the filter.
MatchingDevices == Cardinality({ i \in 1 .. Len(log) : LoggedKind(log[i]) \in kinds })

\* The record lines and the blank lines among the lines of this call.
RecordLines == SelectSeq(written, LAMBDA l : l # BlankLine)

BlankLines == SelectSeq(written, LAMBDA l : l = BlankLine)

\* The record line of every matching device of l, in the order of l.
RECURSIVE ExpectedLines(_)
ExpectedLines(l) ==
    IF l = << >>
    THEN << >>
    ELSE LET e == Head(l)
         IN  (IF LoggedKind(e) \in kinds /\ e.percentage # None
              THEN <<to_string(Opt_output(e.percentage[1], e.model))>>
              ELSE << >>) \o ExpectedLines(Tail(l))

(***************************************************************************)
(* C1.  As stated: once SIGINT has been delivered while the loop was       *)
(* suspended in select!, no output_devices call starts any more and the    *)
(* process can only end with exit code 0, whatever else is ready.          *)
(***************************************************************************)
C1_CancelInWaitStopsCycles ==
    [][ /\ cancelInWait => cycles' = cycles
        /\ (cancelInWait /\ pc' = "done") => exit' = "ok" ]_vars

\* C1, amended.  When the ctrl_c branch is the one select! takes, main
\* returns Ok(()) at once and no output_devices call starts afterwards; and
\* after a SIGINT delivered during the wait the ctrl_c branch is the one
\* taken whenever neither a notification nor the elapsed timer is ready at
\* that poll.
C1_CancelBranchTerminates ==
    [][ /\ won' = "ctrl_c" => (pc' = "done" /\ exit' = "ok" /\ cycles' = cycles)
        /\ pc = "done" => (pc' = "done" /\ cycles' = cycles)
        /\ ( /\ cancelInWait
             /\ pc = "wait"
             /\ pc' # "wait"
             /\ notifQueue = 0
             /\ refresh # "elapsed" ) => won' = "ctrl_c" ]_vars

\* A SIGINT delivered during the wait has ended the loop.
C1_Witness ==
    /\ listen
    /\ cancelInWait
    /\ won = "ctrl_c"
    /\ pc = "done"
    /\ cycles >= 1

(***************************************************************************)
(* C2.  As stated: a call of output_devices that ended in an error has     *)
(* written nothing to standard output.                                     *)
(***************************************************************************)
C2_NoOutputOnError == cycleResult = "err" => written = << >>

\* C2, amended.  A call that ended in an error has written no blank line
\* and no record for the failing device or any later one: its output is
\* exactly the records of the matching devices it had finished before the
\* failure, which may be none; and the process has ended with an error.
C2_FailedCycleOutput ==
    cycleResult = "err" =>
        /\ BlankLines = << >>
        /\ written = ExpectedLines(log)
        /\ pc = "done"
        /\ exit = "err"

\* A call failed at its second device after printing the first.
C2_Witness ==
    /\ cycleResult = "err"
    /\ Len(written) = 1
    /\ idx = 2

(***************************************************************************)
(* C3.  After a successful call in which no device matched, the output of  *)
(* the call is exactly one blank line; and a successful call wrote a blank *)
(* line if and only if it counted zero matching devices.                   *)
(***************************************************************************)
C3_BlankLineIffNoMatch ==
    cycleResult = "ok" =>
        /\ MatchingDevices = 0 => written = <<BlankLine>>
        /\ BlankLines # << >> <=> MatchingDevices = 0
        /\ Len(BlankLines) <= 1

\* A successful call over devices none of which matched.
C3_Witness ==
    /\ cycleResult = "ok"
    /\ Len(log) = 2
    /\ MatchingDevices = 0
    /\ written = <<BlankLine>>

(***************************************************************************)
(* C4.  After a successful call the record lines are exactly the records   *)
(* of the enumerated devices whose kind is in the filter, one each, in     *)
(* enumeration order.                                                      *)
(***************************************************************************)
C4_RecordsInEnumerationOrder ==
    cycleResult = "ok" =>
        /\ RecordLines = ExpectedLines(log)
        /\ Len(RecordLines) = MatchingDevices
        /\ Len(log) = ndev

\* Two matching devices with different records, and a call that printed
\* both.
C4_Witness ==
    /\ cycleResult = "ok"
    /\ Len(log) = 2
    /\ MatchingDevices = 2
    /\ Len(RecordLines) = 2
    /\ RecordLines[1] # RecordLines[2]

(***************************************************************************)
(* Helpers of the properties of DeviceKindSet::from_str.                   *)
(***************************************************************************)
LowerCase == <<"a", "b", "c", "d", "e", "f", "g", "h", "i", "j", "k", "l", "m",
               "n", "o", "p", "q", "r", "s", "t", "u", "v", "w", "x", "y", "z">>

UpperCase == <<"A", "B", "C", "D", "E", "F", "G", "H", "I", "J", "K", "L", "M",
               "N", "O", "P", "Q", "R", "S", "T", "U", "V", "W", "X", "Y", "Z">>

\* s with its ASCII upper-case letters replaced by lower-case ones.
IgnoreCase(s) ==
    [i \in 1 .. Len(s) |->
        IF \E n \in 1 .. 26 : UpperCase[n] = s[i]
        THEN LowerCase[CHOOSE n \in 1 .. 26 : UpperCase[n] = s[i]]
        ELSE s[i]]

\* The tokens of the --kinds string: every maximal comma-free stretch
\* a .. b of it (possibly empty) without the whitespace at its two ends.
IsBlank(c) == c = " " \/ c = "\t"

StretchStarts(s) == {1} \cup { i + 1 : i \in { j \in 1 .. Len(s) : s[j] = "," } }

StretchEnd(s, a) ==
    CHOOSE b \in a - 1 .. Len(s) :
        /\ \A i \in a .. b : s[i] # ","
        /\ b = Len(s) \/ s[b + 1] = ","

Stripped(s, a, b) ==
    LET inner == { i \in a .. b : ~IsBlank(s[i]) }
    IN  IF inner = {}
        THEN << >>
        ELSE SubSeq(s, CHOOSE i \in inner : \A j \in inner : i <= j,
                       CHOOSE i \in inner : \A j \in inner : i >= j)

TokensOf(s) == { Stripped(s, a, StretchEnd(s, a)) : a \in StretchStarts(s) }

IsKindName(tok) == \E k \in DeviceKind : Name(k) = tok

\* The kinds named by the tokens, exactly and ignoring letter case.
KindsNamed == { k \in DeviceKind : Name(k) \in TokensOf(kindsArg) }

KindsNamedIgnoringCase ==
    { k \in DeviceKind : \E tok \in TokensOf(kindsArg) : Name(k) = IgnoreCase(tok) }

Parsed == pc # "parse" /\ exit # "killed"

(***************************************************************************)
(* C5.  As stated: the empty --kinds string parses, to a filter that       *)
(* contains no kind.                                                       *)
(***************************************************************************)
C5_EmptyStringParsesToEmptyFilter ==
    (Parsed /\ kindsArg = << >>) =>
        (pc = "connect" /\ \A k \in DeviceKind : ~DeviceKindSet_contains(kinds, k))

\* C5, amended.  The empty string is a parse error: split yields the single
\* empty term, which names no kind, so from_str fails and main exits with an
\* error; and no string parses to a filter without kinds.
C5_EmptyStringIsRejected ==
    /\ (Parsed /\ kindsArg = << >>) => (pc = "done" /\ exit = "err" /\ kinds = {})
    /\ (Parsed /\ pc = "connect") => kinds # {}

\* The empty string has been parsed.
C5_Witness ==
    /\ kindsArg = << >>
    /\ pc = "done"
    /\ exit = "err"

(***************************************************************************)
(* C6.  As stated: when every token is a kind name after trimming and      *)
(* ignoring letter case, the parse succeeds and the filter contains        *)
(* exactly the kinds named.                                                *)
(***************************************************************************)
C6_ParseIgnoringCase ==
    (Parsed /\ \A tok \in TokensOf(kindsArg) : IsKindName(IgnoreCase(tok)))
        => /\ pc = "connect"
           /\ \A k \in DeviceKind :
                  DeviceKindSet_contains(kinds, k) <=> k \in KindsNamedIgnoringCase

\* C6, amended.  When every token equals a kind name exactly, letter case
\* included, after trimming whitespace, the parse succeeds and the filter
\* contains exactly the kinds named, however often each is named.
C6_ParseExactNames ==
    (Parsed /\ \A tok \in TokensOf(kindsArg) : IsKindName(tok))
        => /\ pc = "connect"
           /\ \A k \in DeviceKind :
                  DeviceKindSet_contains(kinds, k) <=> k \in KindsNamed

\* A string of two padded tokens naming the same kind has been parsed.
C6_Witness ==
    /\ pc = "connect"
    /\ \E i \in 1 .. Len(kindsArg) : kindsArg[i] = ","
    /\ kindsArg[Len(kindsArg)] = "\t"
    /\ TokensOf(kindsArg) = {Name(Headphones)}
    /\ kinds = {Headphones}

(***************************************************************************)
(* C7.  When some token of the --kinds string is not a kind name, main     *)
(* ends with an error at the parse: no connection is made, no              *)
(* output_devices call starts and nothing is written.                      *)
(***************************************************************************)
C7_UnknownKindExitsBeforeAnyCycle ==
    (\E tok \in TokensOf(kindsArg) : ~IsKindName(tok)) =>
        /\ Parsed => (pc = "done" /\ exit = "err")
        /\ ~connected
        /\ cycles = 0
        /\ written = << >>
        /\ kinds = {}

\* "headset, bogus-kind" has been rejected.
C7_Witness ==
    /\ BogusKind \in TokensOf(kindsArg)
    /\ Name(Headset) \in TokensOf(kindsArg)
    /\ pc = "done"
    /\ exit = "err"

(***************************************************************************)
(* C8.  Without --listen at most one output_devices call is ever made, the *)
(* select! loop is never entered, and a run that made its call and         *)
(* returned from main returned the result of that call.                    *)
(***************************************************************************)
C8_OneShotRunsOneCycle ==
    ~listen =>
        /\ cycles <= 1
        /\ pc \notin {"arm", "select", "wait"}
        /\ ~subscribed /\ ctrl_c = "none"
        /\ (pc = "done" /\ connected /\ exit # "killed") =>
               /\ cycles = 1
               /\ \/ cycleResult = "ok" /\ exit = "ok"
                  \/ cycleResult = "err" /\ exit = "err"

\* A one-shot run that ended cleanly after its single call.
C8_Witness ==
    /\ ~listen
    /\ pc = "done"
    /\ exit = "ok"
    /\ cycles = 1
    /\ cycleResult = "ok"

(***************************************************************************)
(* C9.  With --listen, when an output_devices call has returned an error,  *)
(* whichever call it was, main has ended with that error: the loop is not  *)
(* re-entered and no later call starts.                                    *)
(***************************************************************************)
C9_FailedCycleEndsLoop ==
    (listen /\ cycleResult = "err") =>
        /\ pc = "done"
        /\ exit = "err"
        /\ ~ENABLED Next

\* A call made from the loop has failed.
C9_Witness ==
    /\ listen
    /\ cycleResult = "err"
    /\ caller \in {"signal", "time"}
    /\ cycles = 2

(***************************************************************************)
(* C10.  Every record written carries the percentage that was read for its *)
(* device, and carries the class, equal to low_class, if and only if that  *)
(* percentage is at most low_percentage.                                   *)
(***************************************************************************)
PrintedDevices == SelectSeq(log, LAMBDA e : e.percentage # None)

C11_TooltipIffModelNonEmpty ==
    /\ Len(RecordLines) = Len(PrintedDevices)
    /\ \A n \in 1 .. Len(RecordLines) :
         "tooltip" \in DOMAIN RecordLines[n][1] <=> PrintedDevices[n].model # ""

\* C11, amended.  Every record carries the tooltip, and it equals the model
\* read for its device, the empty string included.
C11_TooltipAlwaysModel ==
    /\ Len(RecordLines) = Len(PrintedDevices)
    /\ \A n \in 1 .. Len(RecordLines) :
         /\ "tooltip" \in DOMAIN RecordLines[n][1]
         /\ RecordLines[n][1]["tooltip"] = PrintedDevices[n].model

\* A record of a device whose model is empty, and one of a device with a
\* model.
C11_Witness ==
    /\ Len(RecordLines) = 2
    /\ PrintedDevices[1].model = ""
    /\ RecordLines[1][1]["tooltip"] = ""
    /\ PrintedDevices[2].model # ""

(***************************************************************************)
(* C12.  The kind of a device is the variant whose discriminant is its     *)
(* Type value when that is one of 0 .. 29, and Unknown otherwise; reading  *)
(* it never fails the call; and a device is printed if and only if the     *)
(* name of that kind is a token of the --kinds string, so a device with an *)
(* out-of-range Type is printed only when "unknown" is named.              *)
(***************************************************************************)
C12_TypeCodeToKindIsTotal ==
    /\ pc \in {"model", "emit"} =>
           cur.kind = (IF cur.code \in 0 .. 29 THEN cur.code ELSE 0)
    /\ \A i \in 1 .. Len(log) :
           log[i].percentage # None <=>
               Name(IF log[i].code \in 0 .. 29 THEN log[i].code ELSE 0)
                   \in TokensOf(kindsArg)
    /\ \A i \in 1 .. Len(log) :
           (log[i].code \notin 0 .. 29 /\ log[i].percentage # None) =>
               Name(Unknown) \in TokensOf(kindsArg)

\* A call that printed a device whose Type is out of range, under a filter
\* that names "unknown", and returned Ok.
C12_Witness ==
    /\ cycleResult = "ok"
    /\ Len(log) = 2
    /\ log[1].code = 999
    /\ log[1].percentage # None
    /\ Unknown \in kinds
    /\ Len(RecordLines) = 2

(***************************************************************************)
(* C13.  Every completion of select! takes exactly one branch: the signal  *)
(* branch takes one buffered notification and makes one output_devices     *)
(* call, the timer branch makes one call and leaves the buffer alone, the  *)
(* ctrl_c branch makes none; a pending SIGINT stays pending when another   *)
(* branch is taken; and a call made from the loop that returns Ok leads    *)
(* back to the head of the loop without another call.                      *)
(***************************************************************************)
C13_OneWakeSourcePerIteration ==
    [][ /\ ( /\ pc \in {"select", "wait"}
             /\ pc' \notin {"select", "wait"}
             /\ exit' # "killed" ) =>
               \/ /\ won' = "signal"
                  /\ notifQueue > 0
                  /\ notifQueue' = notifQueue - 1
                  /\ pc' = "enumerate"
                  /\ cycles' = cycles + 1
                  /\ ctrl_c = "ready" => ctrl_c' = "ready"
               \/ /\ won' = "time"
                  /\ refresh = "elapsed"
                  /\ notifQueue' = notifQueue
                  /\ pc' = "enumerate"
                  /\ cycles' = cycles + 1
                  /\ ctrl_c = "ready" => ctrl_c' = "ready"
               \/ /\ won' = "ctrl_c"
                  /\ ctrl_c = "ready"
                  /\ notifQueue' = notifQueue
                  /\ pc' = "done"
                  /\ cycles' = cycles
        /\ ( /\ pc = "finish"
             /\ pc' # pc
             /\ caller # "init"
             /\ exit' # "killed" ) => (pc' = "arm" /\ cycles' = cycles)
        /\ (pc = "arm" /\ pc' # pc /\ exit' # "killed") =>
               (pc' = "select" /\ cycles' = cycles)
        /\ cycles' \in {cycles, cycles + 1} ]_vars

\* The timer branch was taken while a notification was buffered: one call
\* runs and the notification is still buffered.
C13_Witness ==
    /\ won = "time"
    /\ pc = "enumerate"
    /\ notifQueue = 1
    /\ cycles = 2

(***************************************************************************)
(* C14.  As stated: with --listen, a SIGINT that arrives while             *)
(* output_devices runs never cuts the call short.                          *)
(***************************************************************************)
C14_CancelNeverInterruptsCycle ==
    ~(listen /\ exit = "killed" /\ cycleResult = "running")

\* C14, amended.  Once the ctrl_c future has been polled, SIGINT no longer
\* kills the process, and a SIGINT caught while output_devices runs is kept:
\* the call goes on by itself, to Ok(()) with all its lines or to its own
\* error, no other call starts meanwhile, the signal stays pending over
\* every select! that takes another branch, and the select! that finds only
\* it ready ends the process with exit code 0.  Before that first poll
\* (during the first call, for one) SIGINT kills the process.
C14_CaughtCancelIsKept ==
    [][ /\ ctrl_c \in {"registered", "ready"} => exit' # "killed"
        /\ ctrl_c = "ready" => ctrl_c' = "ready"
        /\ (ctrl_c = "ready" /\ cycleResult = "running") =>
               /\ cycles' = cycles
               /\ Len(written') >= Len(written)
               /\ SubSeq(written', 1, Len(written)) = written
               /\ pc' = "done" => cycleResult' = "err"
               /\ cycleResult' = "ok" =>
                      written' = IF ExpectedLines(log') = << >>
                                 THEN <<BlankLine>>
                                 ELSE ExpectedLines(log')
        /\ ( /\ ctrl_c = "ready"
             /\ pc \in {"select", "wait"}
             /\ pc' \notin {"select", "wait"}
             /\ notifQueue = 0
             /\ refresh # "elapsed" ) =>
               (won' = "ctrl_c" /\ pc' = "done" /\ exit' = "ok"
                  /\ cycles' = cycles) ]_vars

\* A SIGINT caught during a call made from the loop, and at no other time,
\* has ended the process with exit code 0 after that call returned Ok(()).
C14_Witness ==
    /\ cancelInCycle
    /\ ~cancelInWait
    /\ cycleResult = "ok"
    /\ written # << >>
    /\ won = "ctrl_c"
    /\ pc = "done"
    /\ exit = "ok"

(***************************************************************************)
(* C15.  The sleep is created anew at the head of every loop iteration,    *)
(* with the whole of --refresh to go, whatever was left of the previous    *)
(* one; so the refresh branch is taken, and a call started by it, only     *)
(* when the deadline has come and at least refresh_ticks ticks have passed *)
(* since the previous call returned.                                       *)
(***************************************************************************)
C15_TimerArmedAnew ==
    [][ /\ (pc = "arm" /\ pc' = "select") =>
               (refresh' = "armed" /\ timeLeft' = refresh_ticks)
        /\ (refresh # "elapsed" /\ refresh' = "elapsed") =>
               (timeLeft = 0 /\ sinceCycle >= refresh_ticks)
        /\ (won' = "time" /\ cycles' = cycles + 1) =>
               /\ refresh = "elapsed"
               /\ timeLeft = 0
               /\ sinceCycle >= refresh_ticks ]_vars

\* The third call was started by the refresh branch, MaxRefresh ticks after
\* the second returned.
C15_Witness ==
    /\ refresh_ticks = MaxRefresh
    /\ won = "time"
    /\ pc = "enumerate"
    /\ cycles = MaxCycles + 1
    /\ sinceCycle = MaxRefresh

(***************************************************************************)
(* C16.  In the loop, after every call that returned Ok(()) another call   *)
(* starts eventually, unless a SIGINT arrives: the refresh branch sees to  *)
(* it when no UPower signal ever comes.                                    *)
(***************************************************************************)
C16_TimerGuaranteesNextCycle ==
    \A n \in 1 .. MaxCycles :
        (pc \in {"arm", "select", "wait"} /\ cycles = n /\ cycleResult = "ok")
            ~> (cycles = n + 1 \/ ctrl_c = "ready" \/ exit = "killed")

\* The second call was started by the refresh branch; no UPower signal and
\* no SIGINT had come.
C16_Witness ==
    /\ won = "time"
    /\ cycles = 2
    /\ caller = "time"
    /\ notifQueue = 0
    /\ ctrl_c = "registered"
    /\ cycleResult = "ok"
    /\ pc = "arm"

(***************************************************************************)
(* C17.  As stated: the signal branch never takes a UPower signal that     *)
(* arrived while output_devices ran, so such a signal never starts a call. *)
(***************************************************************************)
C17_SignalInCycleStartsNoCall ==
    [][ (won' = "signal" /\ cycles' = cycles + 1) => ~Head(arrivedIn) ]_vars

\* C17, amended.  signal_stream buffers the UPower signals that arrive while
\* output_devices runs: nothing leaves the buffer except the oldest signal,
\* taken by a signal branch that starts one call; and a select! that finds
\* a buffered signal, no elapsed timer and no caught SIGINT takes the signal
\* branch at once.
C17_SignalInCycleIsBuffered ==
    [][ /\ Len(arrivedIn') = notifQueue'
        /\ cycleResult = "running" => notifQueue' >= notifQueue
        /\ notifQueue' < notifQueue =>
               /\ pc \in {"select", "wait"}
               /\ won' = "signal"
               /\ pc' = "enumerate"
               /\ cycles' = cycles + 1
               /\ notifQueue' = notifQueue - 1
               /\ arrivedIn' = Tail(arrivedIn)
               /\ lateWake' = Head(arrivedIn)
        /\ ( /\ pc = "select"
             /\ pc' # pc
             /\ notifQueue > 0
             /\ refresh # "elapsed"
             /\ ctrl_c # "ready"
             /\ exit' # "killed" ) =>
               (won' = "signal" /\ cycles' = cycles + 1) ]_vars

\* The third call was started by a signal that had arrived during the
\* second.
C17_Witness ==
    /\ lateWake
    /\ won = "signal"
    /\ caller = "signal"
    /\ pc = "enumerate"
    /\ cycles = MaxCycles + 1

(***************************************************************************)
(* C18.  Inside output_devices the for loop reaches a device only after    *)
(* every query of every earlier device has succeeded, matching or not: a   *)
(* failed query ends the call with the error, main ends with it, and no    *)
(* device is passed over.  (The percentage is queried of matching devices  *)
(* only.)                                                                  *)
(***************************************************************************)
C18_QueryFailureAbortsCycle ==
    [][ /\ (cycleResult = "running" /\ cycleResult' = "err") =>
               /\ pc \in {"enumerate", "proxy", "type", "model", "emit"}
               /\ pc' = "done"
               /\ exit' = "err"
               /\ written' = written
               /\ log' = log
               /\ idx' = idx
        /\ (cycleResult = "running" /\ idx' # idx) =>
               \/ pc = "enumerate" /\ idx' = 1 /\ log' = log
               \/ /\ pc = "emit"
                  /\ idx' = idx + 1
                  /\ Len(log') = idx
                  /\ log'[idx].code = cur.code
                  /\ log'[idx].model = cur.model
        /\ (cycleResult' = "running" /\ pc' \in {"proxy", "type", "model", "emit"}) =>
               Len(log') = idx' - 1
        /\ cycleResult' = "ok" => Len(log') = ndev' ]_vars

\* The model query of the second device, a mouse the filter does not hold,
\* failed after the first device was printed: the call ended there.
C18_Witness ==
    /\ cycleResult = "err"
    /\ pc = "done"
    /\ exit = "err"
    /\ idx = 2
    /\ ndev = 2
    /\ cur.code = Mouse
    /\ Mouse \notin kinds
    /\ Len(log) = 1
    /\ Len(written) = 1

(***************************************************************************)
(* C19.  Every call of output_devices starts with devices_seen = 0 and no  *)
(* line written, and the lines of a call that returned Ok(()) are a        *)
(* function of the options and of what the device source reported in that  *)
(* call: the blank line when nothing matched, whatever earlier calls       *)
(* printed.  No step after the parse changes the options or the filter.    *)
(***************************************************************************)
C19_CyclesAreStateless ==
    [][ /\ confVars' = confVars
        /\ pc # "parse" => kinds' = kinds
        /\ cycles' = cycles + 1 =>
               /\ devices_seen' = 0
               /\ written' = << >>
               /\ log' = << >>
               /\ idx' = 0
        /\ cycleResult' = "ok" =>
               /\ devices_seen' = MatchingDevices'
               /\ written' = IF MatchingDevices' = 0
                             THEN <<BlankLine>>
                             ELSE ExpectedLines(log') ]_vars

\* The second call found devices and none matching, after a first call that
\* had counted one: it wrote the blank line.
C19_Witness ==
    /\ cycles = 2
    /\ prevMatched
    /\ cycleResult = "ok"
    /\ Len(log) >= 1
    /\ devices_seen = 0
    /\ written = <<BlankLine>>

====
